---------------------------- MODULE Spec2Model ----------------------------
(***************************************************************************)
(* Connection-lifecycle manager of dynastymasra/go-library.                *)
(*                                                                         *)
(* Three package variants share one shape and are modelled together; the   *)
(* variable `backend` says which one a behaviour is about:                 *)
(*   "mongo"    src/db/mongo/client.go      (Connect, Client, Ping,        *)
(*                                           SetClient, Reset)             *)
(*   "postgres" src/db/postgres/errors.go   (Connect, Ping, Close, SetDB,  *)
(*                                           DB, Reset)                    *)
(*   "legacy"   src/db/postgres/client.go   (Client connects and returns   *)
(*                                           the handle; Reset stores it)  *)
(*                                                                         *)
(* Each package holds two package-level variables: the handle (`client` /  *)
(* `db`) and `once`, a resync.Once.  resync.Once (github.com/matryer/      *)
(* resync, the version go.mod pins) is                                     *)
(*     Do(f):   if atomic.Load(done) == 1 { return }                       *)
(*              m.Lock(); defer m.Unlock()                                 *)
(*              if done == 0 { defer atomic.Store(done, 1); f() }          *)
(*     Reset(): m.Lock(); defer m.Unlock(); atomic.Store(done, 0)          *)
(* and is modelled by the variables `done` and `mu`.                       *)
(***************************************************************************)
EXTENDS Integers, Sequences, FiniteSets, TLC

(* ------------------------------ bounds --------------------------------- *)
NumThreads == 2          \* goroutines calling into the package
MaxCalls   == 3          \* calls started in one behaviour, all threads together

MaxTime    == 2          \* seconds the clock of the migration scaffolding can show
NumUnits   == 2          \* migration units in the migration source
MaxLiveCalls == 2        \* calls started in a behaviour of the fair scheduler

Threads    == 1..NumThreads

(* ------------------------------ values --------------------------------- *)
\* Config values handed to Connect/Reset: one that the driver accepts and
\* one whose options the driver's validation rejects.
Configs == {"cfgA", "cfgBad"}

Backends == {"mongo", "postgres", "legacy"}

\* Handles (*mongo.Client / *gorm.DB).  kind "nil" is the nil pointer, "conn"
\* a handle a successful dial returned, "bad" the non-nil unusable *gorm.DB
\* gorm.Open returns together with an error, "fake" a handle a caller injects.
Handle(k, i) == [kind |-> k, id |-> i]
Nil          == Handle("nil", 0)
Injected     == {Handle("fake", 1)}

\* error values, by the step that produced them
NoErr    == "nil"
Errors   == {"ConfigInvalid", "ConnectFailed", "ProbeFailed", "PoolFailed",
             "PingFailed", "CloseFailed", "panic"}

VARIABLES
    backend,   \* which package variant this behaviour is about
    client,    \* package variable client (mongo) / db (postgres)
    done,      \* once.done
    mu,        \* once.m: 0 when free, else the thread holding it
    closed,    \* handles whose Close has been called
    pc,        \* per thread: position in the call it is executing
    op,        \* per thread: the operation it called
    cfg,       \* per thread: the receiver Config of that call
    lerr,      \* per thread: Connect's local `var err error`
    rval,      \* per thread: the handle its Connect returned (legacy Client)
    ran,       \* per thread, history: this call executed the connect body
    gerr,      \* per thread, history: the error of the attempt of the generation
               \*   in which its once.Do decided (NoErr when it succeeded)
    served,    \* per thread, history: its once.Do returned without running the
               \*   body, and a connect body had then been started and had
               \*   finished since the latest once.Reset
    retd,      \* history: the call that returned last, with what it returned
    fresh,     \* history: once.Reset() has not been executed yet
    nbody,     \* history: connect bodies started in the current generation
    gdials,    \* history: driver dials made in the current generation
    natt,      \* history: connect bodies started so far
    last,      \* history: the most recent connect attempt
    prev,      \* history: outcome of the generation before the current one
    nthr,      \* goroutines 1..nthr have made a call
    ncalls,    \* history: calls started
    pkg,       \* migration helpers: "db" (src/db/migration.go) or "postgres"
               \*   (src/db/postgres/migration.go)
    files,     \* the files in ./migrations
    now,       \* the clock, in seconds (time.Now().Unix())
    version,   \* migration units applied to the database
    dirty,     \* the database's migration state is marked dirty
    mret       \* history: the migration helper that returned last

vars == <<backend, client, done, mu, closed, pc, op, cfg, lerr, rval, ran,
          gerr, served, retd, fresh, nbody, gdials, natt, last, prev, nthr,
          ncalls, pkg, files, now, version, dirty, mret>>

\* the state of the migration helpers
migration == <<pkg, files, now, version, dirty, mret>>

shared == <<client, done, mu, closed>>
locals == <<op, cfg, lerr, rval, ran, gerr, served>>
hist   == <<fresh, nbody, gdials, natt, last, prev>>

(* --------------------------- resync.Once ------------------------------- *)
\* Do's fast path: atomic.LoadUint32(&o.done) == 1 returns without locking.
FastPathSkipsAlways(d) == TRUE
FastPathSkips(d) == d = 1

\* Do's slow path, under the mutex: the body runs only when done == 0.
SlowPathRunsAlways(d) == TRUE
SlowPathRuns(d) == d = 0

\* `defer atomic.StoreUint32(&o.done, 1)`: the barrier fires whether or not
\* the body succeeded (failed is the body's outcome, which Do never sees).
DoneAfterBodyRetry(failed) == IF failed THEN 0 ELSE 1
DoneAfterBody(failed) == 1

\* Reset stores 0 into done.
DoneAfterResetKeep(d) == d
DoneAfterReset(d) == 0

\* Reset and Do's slow path begin with o.m.Lock(): they go on when the mutex
\* is free.
LockNeverWaits(m) == TRUE
LockAcquired(m) == m = 0

\* `defer o.m.Unlock()` of Do: the mutex is free when Do returns.
UnlockForgotten(m) == m
AfterUnlock(m) == 0

(* ----------------------------- driver ---------------------------------- *)
\* options.Client()...Validate() (mongo only): rejects the bad configuration.
\* The postgres variants build a DSN with fmt.Sprintf and validate nothing.
Valid(c) == c # "cfgBad"

\* What the driver's connect call returns as its first result.
\* mongo.Connect returns (nil, err) on failure; gorm.Open returns a non-nil
\* *gorm.DB together with the error.
DialValue(b, ok, i) ==
    IF ok THEN Handle("conn", i)
    ELSE IF b = "mongo" THEN Nil ELSE Handle("bad", i)

\* A handle on which a probe can succeed.
Usable(h) == h.kind \in {"conn", "fake"} /\ h \notin closed

(* ------------------- the error variable of Connect --------------------- *)
\* Connect declares `var err error` and returns it; the closure passed to
\* once.Do assigns errors at three places.
\*   mongo:  `hostname, err := os.Hostname()` declares a second err inside
\*           the closure, so every later `err = ...` of the closure assigns
\*           that inner variable and the outer one keeps its value.
\*   postgres/legacy: `db, err = gorm.Open(...)` assigns the outer err;
\*           `sqlDB, err := db.DB()` declares an inner err for the pool step.
\* OuterErr is the outer variable after the closure assigned e at `step`.
OuterErr(b, step, old, e) ==
    IF b = "mongo" THEN old
    ELSE IF step = "dial" THEN e
    ELSE old

(* --------------------------- accessors --------------------------------- *)
\* The exported Go function an operation of the model stands for.
Exported(b, o) ==
    CASE o = "Connect" -> IF b = "legacy" THEN "Client" ELSE "Connect"
      [] o = "Get"     -> IF b = "mongo" THEN "Client" ELSE "DB"
      [] o = "Set"     -> IF b = "mongo" THEN "SetClient" ELSE "SetDB"
      [] OTHER         -> o

\* Client() (mongo) / DB() (postgres): `return client` / `return db`.
ReadNothing(slot) == Nil
ReadSlot(slot) == slot

\* SetClient(conn) / SetDB(conn): `client = conn`; once is not touched.
SetKeepsOld(slot, d, conn) == [slot |-> slot, done |-> d]
SetFiresBarrier(slot, d, conn) == [slot |-> conn, done |-> 1]
SetEffect(slot, d, conn) == [slot |-> conn, done |-> d]

\* Close(): closes the stored handle; once is not touched.
CloseResetsBarrier(d) == 0
CloseBarrier(d) == d

(* ------------------------------ Init ----------------------------------- *)
NoAttempt == [cfg |-> "cfgA", out |-> "none", err |-> NoErr, changed |-> FALSE]

\* A returned call: which operation on which receiver, the error and the
\* handle it returned (for SetClient: the handle it was given), and its
\* history (see ran, gerr, served).
Call(o, c, e, h, r, g, sv) ==
    [op |-> o, cfg |-> c, err |-> e, val |-> h, ran |-> r, gerr |-> g,
     served |-> sv]
NoCall == Call("none", "cfgA", NoErr, Nil, FALSE, NoErr, FALSE)

\* No migration helper has been called: ./migrations is empty and no unit
\* of the migration source is applied.
NoMigration ==
    [op |-> "none", name |-> "", typ |-> "", err |-> "nil", up |-> "none",
     down |-> "none", removed |-> FALSE, drv |-> "nil"]

InitMigration ==
    /\ files = {}
    /\ now = 1
    /\ version = 0
    /\ dirty = FALSE
    /\ mret = NoMigration

InitManager ==
    /\ client = Nil
    /\ done = 0
    /\ mu = 0
    /\ closed = {}
    /\ pc = [t \in Threads |-> "idle"]
    /\ op = [t \in Threads |-> "none"]
    /\ cfg = [t \in Threads |-> "cfgA"]
    /\ lerr = [t \in Threads |-> NoErr]
    /\ rval = [t \in Threads |-> Nil]
    /\ ran = [t \in Threads |-> FALSE]
    /\ gerr = [t \in Threads |-> NoErr]
    /\ served = [t \in Threads |-> FALSE]
    /\ retd = NoCall
    /\ fresh = TRUE
    /\ nbody = 0
    /\ gdials = 0
    /\ natt = 0
    /\ last = NoAttempt
    /\ prev = "none"
    /\ nthr = 0
    /\ ncalls = 0

Init ==
    /\ backend \in Backends
    /\ InitManager
    /\ pkg = "db"
    /\ InitMigration

(* ------------------------ calls and returns ---------------------------- *)
\* Goroutine t starts a call.  Goroutines are interchangeable: they are
\* numbered in the order of their first call.
Enter(t) ==
    /\ pc[t] = "idle"
    /\ t <= nthr + 1
    /\ nthr' = IF t = nthr + 1 THEN t ELSE nthr
    /\ ncalls < MaxCalls
    /\ ncalls' = ncalls + 1

\* A call that runs to its return in the step that starts it.
Instant(t, o, e, h) ==
    /\ Enter(t)
    /\ retd' = Call(o, "cfgA", e, h, FALSE, NoErr, FALSE)
    /\ UNCHANGED <<pc, locals>>

\* A panic (nil pointer dereference) in the step that starts the call.
Panics(t, o) ==
    /\ Enter(t)
    /\ pc' = [pc EXCEPT ![t] = "crashed"]
    /\ retd' = Call(o, "cfgA", "panic", Nil, FALSE, NoErr, FALSE)
    /\ UNCHANGED locals

\* The frame of the call of goroutine t is gone.
Clear(t) ==
    /\ op' = [op EXCEPT ![t] = "none"]
    /\ cfg' = [cfg EXCEPT ![t] = "cfgA"]
    /\ lerr' = [lerr EXCEPT ![t] = NoErr]
    /\ rval' = [rval EXCEPT ![t] = Nil]
    /\ ran' = [ran EXCEPT ![t] = FALSE]
    /\ gerr' = [gerr EXCEPT ![t] = NoErr]
    /\ served' = [served EXCEPT ![t] = FALSE]

\* A connect body has been started since the latest once.Reset (or since the
\* start, when there was none) and has run to its end.
Served == nbody >= 1 /\ last.out \in {"ok", "failed"}

\* The handle a Connect returns: legacy Client evaluates `return db, err`;
\* the Connect of mongo and postgres returns no handle.
Returned == IF backend = "legacy" THEN ReadSlot(client) ELSE Nil

\* once.Do of goroutine t has returned, with e in Connect's err: Connect
\* returns err (mongo, postgres), legacy Client returns (db, err).  The
\* call of t returns with it, except in the legacy Reset, which goes on to
\* the assignment of `db, err = c.Client()`.
AfterDo(t, o, e, r, g, sv) ==
    IF o = "Reset" /\ backend = "legacy"
    THEN /\ pc' = [pc EXCEPT ![t] = "resetstore"]
         /\ op' = [op EXCEPT ![t] = o]
         /\ lerr' = [lerr EXCEPT ![t] = e]
         /\ rval' = [rval EXCEPT ![t] = Returned]
         /\ ran' = [ran EXCEPT ![t] = r]
         /\ gerr' = [gerr EXCEPT ![t] = g]
         /\ served' = [served EXCEPT ![t] = sv]
         /\ UNCHANGED <<cfg, retd>>
    ELSE /\ pc' = [pc EXCEPT ![t] = "idle"]
         /\ retd' = Call(o, cfg[t], e, Returned, r, g, sv)
         /\ Clear(t)

\* c.Connect(ctx) (mongo, postgres) or c.Client() (legacy): `var err error`,
\* then once.Do, whose first statement is the fast path: one atomic load of
\* done.
CallConnect(t) ==
    \E c \in Configs :
        /\ Enter(t)
        /\ IF FastPathSkips(done)
           THEN /\ retd' = Call("Connect", c, NoErr, Returned, FALSE,
                                last.err, Served)
                /\ UNCHANGED <<pc, locals>>
           ELSE /\ pc' = [pc EXCEPT ![t] = "lock"]
                /\ op' = [op EXCEPT ![t] = "Connect"]
                /\ cfg' = [cfg EXCEPT ![t] = c]
                /\ UNCHANGED <<lerr, rval, ran, gerr, served, retd>>
        /\ UNCHANGED <<backend, migration, shared, hist>>

\* c.Reset(): the call has been made, once.Reset() is next.
CallReset(t) ==
    \E c \in Configs :
        /\ Enter(t)
        /\ pc' = [pc EXCEPT ![t] = "reset"]
        /\ op' = [op EXCEPT ![t] = "Reset"]
        /\ cfg' = [cfg EXCEPT ![t] = c]
        /\ UNCHANGED <<lerr, rval, ran, gerr, served, retd>>
        /\ UNCHANGED <<backend, migration, shared, hist>>

(* --------------------------- once.Reset() ------------------------------ *)
\* Lock, store 0, unlock: waits while a connect body holds the mutex.
\* Reset then calls c.Connect / c.Client, whose frame starts with a nil err
\* and whose once.Do starts with the fast-path load.  That load returns only
\* if done is 1 again, which needs a whole connect body of another goroutine
\* in between, and then the mutex is free and the slow path returns the same
\* way: the call goes on at the slow path.
OnceReset(t) ==
    /\ pc[t] = "reset"
    /\ LockAcquired(mu)
    /\ done' = DoneAfterReset(done)
    /\ fresh' = FALSE
    /\ nbody' = 0
    /\ gdials' = 0
    /\ prev' = IF nbody = 0 THEN "none" ELSE last.out
    /\ pc' = [pc EXCEPT ![t] = "lock"]
    /\ UNCHANGED <<backend, migration, client, mu, closed, locals, retd, natt, last, nthr,
                   ncalls>>

(* ----------------------------- once.Do --------------------------------- *)
\* Slow path: take the mutex; if done is still 0 the closure starts, else
\* unlock and return.  mongo's closure begins with the hostname lookup (no
\* effect on the state) and opts.Validate(); a rejected configuration makes
\* the closure return before any dial.
DoLock(t) ==
    /\ pc[t] = "lock"
    /\ LockAcquired(mu)
    /\ IF SlowPathRuns(done)
       THEN LET bad == backend = "mongo" /\ ~Valid(cfg[t])
                e   == IF bad THEN "ConfigInvalid" ELSE NoErr
            IN  /\ mu' = t
                /\ natt' = natt + 1
                /\ nbody' = nbody + 1
                /\ ran' = [ran EXCEPT ![t] = TRUE]
                /\ last' = [cfg |-> cfg[t], out |-> IF bad THEN "failed" ELSE "running",
                            err |-> e, changed |-> FALSE]
                /\ lerr' = [lerr EXCEPT ![t] = OuterErr(backend, "validate", @, e)]
                /\ pc' = [pc EXCEPT ![t] = IF bad THEN "finish" ELSE "dial"]
                /\ UNCHANGED <<op, cfg, rval, gerr, served, retd>>
       ELSE /\ AfterDo(t, op[t], lerr[t], FALSE, last.err, Served)
            /\ UNCHANGED <<mu, natt, nbody, last>>
    /\ UNCHANGED <<backend, migration, client, done, closed, fresh, gdials, prev, nthr,
                   ncalls>>

(* ------------------------- the connect body ---------------------------- *)
\* `client, err = mongo.Connect(ctx, opts)` / `db, err = gorm.Open(...)`:
\* the package variable is assigned whatever the driver returned.
DialWith(t, outcomes) ==
    /\ pc[t] = "dial"
    /\ \E ok \in outcomes :
        LET h == DialValue(backend, ok, natt)
            e == IF ok THEN NoErr ELSE "ConnectFailed"
        IN  /\ client' = h
            /\ last' = [last EXCEPT !.out = IF ok THEN @ ELSE "failed",
                                    !.err = e,
                                    !.changed = (h # client)]
            /\ lerr' = [lerr EXCEPT ![t] = OuterErr(backend, "dial", @, e)]
    /\ gdials' = gdials + 1
    /\ pc' = [pc EXCEPT ![t] = "finish"]
    /\ UNCHANGED <<backend, migration, done, mu, closed, op, cfg, rval, ran, gerr, served,
                   retd, fresh, nbody, natt, prev, nthr, ncalls>>

\* The driver decides whether the dial succeeds.
Dial(t) == DialWith(t, BOOLEAN)

\* The step after a successful dial.
\*   mongo:    `err = client.Ping(ctx, nil)`
\*   postgres: `db = db.Debug()` (a session on the same pool: the same handle
\*             here), `sqlDB, err := db.DB()`, then the pool sizes.
LastStep == IF backend = "mongo" THEN "probe" ELSE "pool"
LastStepErr == IF backend = "mongo" THEN "ProbeFailed" ELSE "PoolFailed"

\* The rest of the closure and the end of once.Do: the last step of the body
\* when the attempt has not failed yet, then the deferred store of done, the
\* unlock, and Connect's return.
Finish(t) ==
    /\ pc[t] = "finish"
    /\ \E ok \in (IF last.out = "running" THEN BOOLEAN ELSE {FALSE}) :
        LET e == IF last.out # "running" THEN last.err
                 ELSE IF ok THEN NoErr ELSE LastStepErr
            o == IF e = NoErr THEN "ok" ELSE "failed"
            x == IF last.out = "running"
                 THEN OuterErr(backend, LastStep, lerr[t], e)
                 ELSE lerr[t]
        IN  /\ last' = [last EXCEPT !.out = o, !.err = e]
            /\ done' = DoneAfterBody(o = "failed")
            /\ AfterDo(t, op[t], x, TRUE, e, FALSE)
    /\ mu' = AfterUnlock(mu)
    /\ UNCHANGED <<backend, migration, client, closed, fresh, nbody, gdials, natt, prev,
                   nthr, ncalls>>

\* legacy Reset: `db, err = c.Client()` assigns the returned handle to db;
\* then Reset returns err.
ResetStore(t) ==
    /\ pc[t] = "resetstore"
    /\ client' = rval[t]
    /\ pc' = [pc EXCEPT ![t] = "idle"]
    /\ retd' = Call("Reset", cfg[t], lerr[t], Nil, ran[t], gerr[t], served[t])
    /\ Clear(t)
    /\ UNCHANGED <<backend, migration, done, mu, closed, hist, nthr, ncalls>>

(* --------------------- accessor, override, probe ----------------------- *)
\* Client() of mongo, DB() of postgres and legacy, on the receiver c: the
\* function does not look at its receiver.
Get(t) ==
    \E c \in Configs :
        /\ Enter(t)
        /\ retd' = Call("Get", c, NoErr, ReadSlot(client), FALSE, NoErr, FALSE)
        /\ UNCHANGED <<pc, locals>>
        /\ UNCHANGED <<backend, migration, shared, hist>>

\* SetClient(conn) / SetDB(conn).
SetClient(t) ==
    \E h \in Injected :
        /\ Instant(t, "Set", NoErr, h)
        /\ client' = SetEffect(client, done, h).slot
        /\ done' = SetEffect(client, done, h).done
        /\ UNCHANGED <<backend, migration, mu, closed, hist>>

\* Ping(): client.Ping(...) / db.DB() then conn.Ping().  Both dereference
\* the package variable: on the nil pointer the goroutine panics.
Ping(t) ==
    /\ IF client = Nil
       THEN Panics(t, "Ping")
       ELSE \E ok \in BOOLEAN :
                Instant(t, "Ping",
                        IF ok /\ Usable(client) THEN NoErr ELSE "PingFailed", Nil)
    /\ UNCHANGED <<backend, migration, shared, hist>>

\* Close() (postgres, legacy): db.DB() then conn.Close().
Close(t) ==
    /\ backend # "mongo"
    /\ IF client = Nil
       THEN /\ Panics(t, "Close")
            /\ UNCHANGED closed
       ELSE /\ Instant(t, "Close",
                       IF Usable(client) THEN NoErr ELSE "CloseFailed", Nil)
            /\ closed' = closed \cup {client}
    /\ done' = CloseBarrier(done)
    /\ UNCHANGED <<backend, migration, client, mu, hist>>

(* ------------------------------ Next ----------------------------------- *)
Step(t) ==
    \/ CallConnect(t)
    \/ CallReset(t)
    \/ OnceReset(t)
    \/ DoLock(t)
    \/ Dial(t)
    \/ Finish(t)
    \/ ResetStore(t)
    \/ Get(t)
    \/ SetClient(t)
    \/ Ping(t)
    \/ Close(t)

Next == \E t \in Threads : Step(t)

Spec == Init /\ [][Next]_vars

\* One goroutine making its calls one after the other.
Caller == {t \in Threads : \A u \in Threads : t <= u}

NextSeq == \E t \in Caller : Step(t)

SpecSeq == Init /\ [][NextSeq]_vars

(* ----------------- a driver that fails, then succeeds ------------------ *)
\* The fake driver of the example scenario: its first two dial invocations
\* fail and the later ones succeed.  The dial of the n-th connect body is at
\* most the n-th invocation of the driver.
FakeDialOk(n) == n > 2

FakeDial(t) == DialWith(t, {FakeDialOk(natt)})

\* The scenario: one goroutine calls Connect, Connect, Reset.
FakeStep(t) ==
    \/ ncalls < 2 /\ CallConnect(t)
    \/ ncalls = 2 /\ CallReset(t)
    \/ OnceReset(t)
    \/ DoLock(t)
    \/ FakeDial(t)
    \/ Finish(t)
    \/ ResetStore(t)

NextFake == \E t \in Caller : FakeStep(t)

SpecFake == Init /\ [][NextFake]_vars

(* ------------------- Connect and Reset, scheduled fairly --------------- *)
\* Goroutines that call only Connect and Reset, MaxLiveCalls times in all.
CallStep(t) ==
    \/ ncalls < MaxLiveCalls /\ CallConnect(t)
    \/ ncalls < MaxLiveCalls /\ CallReset(t)

\* A step of goroutine t inside a call: the scheduler runs a goroutine that
\* can run, every Lock of a free mutex is granted, and the driver's dial and
\* probe return.
Progress(t) ==
    \/ OnceReset(t)
    \/ DoLock(t)
    \/ Dial(t)
    \/ Finish(t)
    \/ ResetStore(t)

NextLive == \E t \in Threads : CallStep(t) \/ Progress(t)

SpecLive ==
    /\ Init
    /\ [][NextLive]_vars
    /\ \A t \in Threads : WF_vars(Progress(t))

(* ======================= migration helpers ============================= *)
\* src/db/migration.go (package db: CreateMigrationFiles takes the database
\* type) and src/db/postgres/migration.go (package postgres: no type, always
\* SQL).  The helpers are plain sequential functions; each is one action.
Packages  == {"db", "postgres"}

\* filename arguments: the empty string and a name
Filenames == {"", "init"}

\* Type arguments: PostgresDB, MongoDB, and a value that is neither
PostgresDB == "postgres"
MongoDB    == "mongodb"
Types      == {PostgresDB, MongoDB, "mysql"}

\* The extension the switch on t selects; "none" is its default branch.
\* postgres.CreateMigrationFiles formats ".sql" into both paths.
ExtAlwaysSql(p, t) == "sql"
ExtOf(p, t) ==
    IF p = "postgres" THEN "sql"
    ELSE CASE t = PostgresDB -> "sql"
           [] t = MongoDB    -> "json"
           [] OTHER          -> "none"

\* fmt.Sprintf("%s/%d_%s.up.sql", migrationFilePath, timestamp, filename)
\* and its three siblings: the path of a migration file.
Path(ts, name, dir, ext) == [ts |-> ts, name |-> name, dir |-> dir, ext |-> ext]

\* createFile(filename): os.Create, then f.Close().  Either can fail; the
\* file exists as soon as os.Create has succeeded.
CreateOutcomes == {"ok", "nocreate", "noclose"}
CreateErr(o) ==
    CASE o = "ok"       -> "nil"
      [] o = "nocreate" -> "CreateFailed"
      [] o = "noclose"  -> "CloseFailed"
      [] OTHER          -> "nil"
AfterCreate(fs, p, o) == IF o = "nocreate" THEN fs ELSE fs \cup {p}

\* os.Remove(upMigrationFilePath): its error is discarded.
RemovesNothing(fs, p, ok) == fs
AfterRemove(fs, p, ok) == IF ok THEN fs \ {p} ELSE fs

\* The record of a returned helper: the operation and its arguments, the
\* error it returned, how the two createFile calls ended ("none": not
\* called), whether os.Remove removed the file, and the error the migration
\* runner returned to the helper.
Migration(o, n, t, e, u, d, rm, drv) ==
    [op |-> o, name |-> n, typ |-> t, err |-> e, up |-> u, down |-> d,
     removed |-> rm, drv |-> drv]

\* A helper is called and returns.
MigrationCall ==
    /\ ncalls < MaxCalls
    /\ ncalls' = ncalls + 1
    /\ UNCHANGED <<backend, shared, pc, locals, retd, hist, nthr, pkg>>

\* CreateMigrationFiles(filename, t) / CreateMigrationFiles(filename)
CreateMigrationFiles ==
    \E name \in Filenames, t \in Types, ts \in now..MaxTime,
       u \in CreateOutcomes, d \in CreateOutcomes, rm \in BOOLEAN :
        LET ext  == ExtOf(pkg, t)
            up   == Path(ts, name, "up", ext)
            down == Path(ts, name, "down", ext)
            fsU  == AfterCreate(files, up, u)
            fsD  == AfterCreate(fsU, down, d)
        IN  /\ MigrationCall
            /\ pkg = "postgres" => t = PostgresDB
            /\ IF Len(name) = 0
               THEN /\ mret' = Migration("Create", name, t, "FilenameMissing",
                                         "none", "none", FALSE, "nil")
                    /\ UNCHANGED <<files, now>>
               ELSE /\ now' = ts
                    /\ IF ext = "none"
                       THEN /\ mret' = Migration("Create", name, t, "TypeInvalid",
                                                 "none", "none", FALSE, "nil")
                            /\ files' = files
                       ELSE IF u # "ok"
                       THEN /\ mret' = Migration("Create", name, t, CreateErr(u),
                                                 u, "none", FALSE, "nil")
                            /\ files' = fsU
                       ELSE IF d # "ok"
                       THEN /\ mret' = Migration("Create", name, t, CreateErr(d),
                                                 u, d, rm, "nil")
                            /\ files' = AfterRemove(fsD, up, rm)
                       ELSE /\ mret' = Migration("Create", name, t, "nil",
                                                 u, d, FALSE, "nil")
                            /\ files' = fsD
            /\ UNCHANGED <<version, dirty>>

(* ----------------------- the migration runner -------------------------- *)
\* golang-migrate's *migrate.Migrate, the argument of RunMigration and
\* RollbackMigration, over a source of NumUnits units.
ErrNoChange == "ErrNoChange"
ErrNotExist == "ErrNotExist"

\* Unwrap: the error an error wraps ("nil": none).  A failed read of a
\* migration file is an *fs.PathError around os.ErrNotExist.
Unwrap(e) == IF e = "PathError" THEN ErrNotExist ELSE "nil"

\* errors.Is(err, target): err or an error of its Unwrap chain is target.
ErrorsIsNever(e, target) == FALSE
RECURSIVE ErrorsIsFrom(_, _)
ErrorsIsFrom(e, target) ==
    IF e = "nil" THEN FALSE
    ELSE e = target \/ ErrorsIsFrom(Unwrap(e), target)
ErrorsIs(e, target) == ErrorsIsFrom(e, target)

\* m.Up(): ErrDirty on a dirty database, ErrNoChange when every unit is
\* applied; else it applies the pending units in order, and stops at the
\* first that fails, leaving the database dirty.
UpOutcomes ==
    IF dirty THEN {[err |-> "ErrDirty", version |-> version, dirty |-> TRUE]}
    ELSE IF version = NumUnits
    THEN {[err |-> ErrNoChange, version |-> version, dirty |-> FALSE]}
    ELSE {[err |-> "nil", version |-> NumUnits, dirty |-> FALSE]}
         \cup {[err |-> e, version |-> v, dirty |-> TRUE] :
                 e \in {"ErrLocked", "PathError"}, v \in version..(NumUnits - 1)}

\* m.Steps(-1): ErrDirty on a dirty database; with no unit applied readDown
\* reports os.ErrNotExist; else it rolls the latest unit back, or fails and
\* leaves the database dirty.
StepsBackOutcomes ==
    IF dirty THEN {[err |-> "ErrDirty", version |-> version, dirty |-> TRUE]}
    ELSE IF version = 0
    THEN {[err |-> ErrNotExist, version |-> version, dirty |-> FALSE]}
    ELSE {[err |-> "nil", version |-> version - 1, dirty |-> FALSE],
          [err |-> "DownFailed", version |-> version, dirty |-> TRUE]}

\* RunMigration(migration)
RunMigration ==
    \E r \in UpOutcomes :
        /\ MigrationCall
        /\ version' = r.version
        /\ dirty' = r.dirty
        /\ mret' = Migration("Run", "", "",
                             IF r.err # "nil" /\ ~ErrorsIs(r.err, ErrNoChange)
                             THEN r.err ELSE "nil",
                             "none", "none", FALSE, r.err)
        /\ UNCHANGED <<files, now>>

\* RollbackMigration(migration)
RollbackMigration ==
    \E r \in StepsBackOutcomes :
        /\ MigrationCall
        /\ version' = r.version
        /\ dirty' = r.dirty
        /\ mret' = Migration("Rollback", "", "",
                             IF r.err # "nil" THEN r.err ELSE "nil",
                             "none", "none", FALSE, r.err)
        /\ UNCHANGED <<files, now>>

InitMig ==
    /\ backend = "postgres"
    /\ InitManager
    /\ pkg \in Packages
    /\ InitMigration

NextMig ==
    \/ CreateMigrationFiles
    \/ RunMigration
    \/ RollbackMigration

SpecMig == InitMig /\ [][NextMig]_vars

(* ===================== properties of the manager ======================= *)
\* The errors of the three steps the specification names.
ConnectErrors == {"ConfigInvalid", "ConnectFailed", "ProbeFailed"}

\* No goroutine is inside a call.
Quiet == \A t \in Threads : pc[t] \in {"idle", "crashed"}

\* The step is a once.Reset().
ResetStep == \E t \in Threads : pc[t] = "reset" /\ pc'[t] = "lock"

\* The step is a whole call of the operation o.
InstantStep(o) == ncalls' = ncalls + 1 /\ pc' = pc /\ retd'.op = o

\* The step leaves the package variables and the driver alone.
PureRead ==
    /\ client' = client /\ done' = done /\ mu' = mu
    /\ natt' = natt /\ gdials' = gdials /\ nbody' = nbody

(* C1, as stated: in every interleaving the connect body runs at most once
   per generation, and Connect calls on a fresh manager cause exactly one
   dial.  Fails: mongo's Connect with options the driver rejects returns
   before any dial. *)
C1_ExactlyOneDial ==
    /\ nbody <= 1
    /\ gdials <= 1
    /\ (fresh /\ retd.op = "Connect") => gdials = 1

(* C1, amended: in every interleaving the connect body runs at most once per
   generation and dials at most once; once a Connect has returned on a fresh
   manager the body has run exactly once, with exactly one dial unless
   mongo's option validation rejected the configuration, and then none. *)
C1_SingleFlight ==
    /\ nbody <= 1
    /\ gdials <= nbody
    /\ (fresh /\ retd.op = "Connect") =>
           /\ nbody = 1
           /\ \/ gdials = 1
              \/ /\ backend = "mongo"
                 /\ ~Valid(last.cfg)
                 /\ last.err = "ConfigInvalid"
                 /\ gdials = 0

\* A second Connect of a fresh manager has returned without running the
\* body, after the one dial of the first.
C1_Witness ==
    /\ fresh /\ retd.op = "Connect" /\ ~retd.ran /\ retd.served
    /\ ncalls >= 2 /\ nbody = 1 /\ gdials = 1

(* C2: every Connect call of a generation that did not execute the attempt
   itself (it waited on the barrier while the attempt ran, or was made after
   it) returns the outcome of that generation's connect attempt: its error
   when it failed, nil when it succeeded.  (The call that executed the
   attempt is the subject of C3.) *)
C2_SameOutcome ==
    (retd.op = "Connect" /\ ~retd.ran /\ retd.served) => retd.err = retd.gerr

(* C3: the caller that executed the connect body, through Connect or through
   Reset, gets a non-nil error whenever validation, dial or probe failed in
   that body. *)
C3_ExecutorGetsError ==
    (retd.op \in {"Connect", "Reset"} /\ retd.ran /\ retd.gerr \in ConnectErrors)
        => retd.err # NoErr

(* C4: a connect attempt in which validation, dial or probe failed has not
   changed the stored client. *)
C4_FailedKeepsSlot ==
    (last.out = "failed" /\ last.err \in ConnectErrors) => ~last.changed

(* C5: once the connect attempt of the current generation has failed, no
   step other than a once.Reset() starts a connect body or dials; and a dial
   is always the first of its generation. *)
C5_NoRedial ==
    [][ /\ (nbody >= 1 /\ last.out = "failed" /\ ~ResetStep)
            => (natt' = natt /\ gdials' = gdials)
        /\ (gdials' # gdials /\ ~ResetStep)
            => (gdials = 0 /\ gdials' = 1 /\ last.out = "running") ]_vars

\* After a failed dial a later Connect of the same generation has returned
\* without a connect body of its own.
C5_Witness ==
    /\ nbody = 1 /\ gdials = 1 /\ last.out = "failed"
    /\ last.err = "ConnectFailed"
    /\ retd.op = "Connect" /\ ~retd.ran /\ done = 1

(* C6, as stated: every Reset that returns has executed a connect body of
   its own.  Fails when another goroutine's Connect runs the body between
   the once.Reset() and the Connect of the Reset. *)
C6_ResetRunsOwnBody == retd.op = "Reset" => retd.ran

(* C6, amended: when a Reset returns, a connect body has been executed to
   its end after the Reset returned the barrier to Unfired: by the Reset's
   own goroutine, or by a concurrent Connect or Reset of another goroutine
   (and then the Reset has made no attempt of its own).  A connect body runs
   under the barrier's mutex with the configuration of its receiver. *)
C6_ResetSeesBody ==
    /\ retd.op = "Reset" => (retd.ran \/ retd.served)
    /\ \A t \in Threads :
           pc[t] \in {"dial", "finish"} => (mu = t /\ last.cfg = cfg[t])

\* A Reset has returned without an attempt of its own.
C6_Witness == retd.op = "Reset" /\ ~retd.ran /\ retd.served

(* C7 (one goroutine): a Reset that has returned has run a connect body; if
   nothing failed in it, the Reset returned nil and the client slot holds
   the handle that body dialed, which is usable. *)
C7_ResetRetries ==
    (retd.op = "Reset" /\ Quiet) =>
        /\ retd.ran
        /\ retd.gerr = NoErr =>
               /\ retd.err = NoErr
               /\ client = Handle("conn", natt)
               /\ Usable(client)

\* After a failed generation a Reset has succeeded and stored a handle.
C7_Witness ==
    /\ retd.op = "Reset" /\ Quiet /\ prev = "failed"
    /\ retd.ran /\ retd.gerr = NoErr /\ retd.err = NoErr
    /\ client = Handle("conn", natt) /\ natt = 2

(* C8: SetClient(h) / SetDB(h) stores h in the client slot, whatever the
   barrier state, and neither dials nor touches the barrier. *)
C8_Override ==
    [][ InstantStep("Set") =>
            /\ client' = retd'.val
            /\ retd'.val \in Injected
            /\ done' = done /\ mu' = mu
            /\ natt' = natt /\ gdials' = gdials /\ nbody' = nbody ]_vars

\* A handle injected while the barrier is Fired after a failed attempt.
C8_Witness ==
    /\ retd.op = "Set" /\ client = retd.val /\ client \in Injected
    /\ done = 1 /\ nbody = 1 /\ last.out = "failed"

(* C9: a fired barrier stays fired under every step that is not a
   once.Reset(): no such step starts a connect body or dials, and the client
   slot then changes only by SetClient/SetDB (or the assignment that ends a
   legacy Reset). *)
C9_OnlyResetUnfires ==
    [][ (done = 1 /\ ~ResetStep) =>
            /\ done' = 1
            /\ natt' = natt /\ gdials' = gdials
            /\ client' # client =>
                   \/ InstantStep("Set")
                   \/ \E t \in Threads : pc[t] = "resetstore" ]_vars

\* Connect, Close, Connect without a Reset: the second Connect has returned
\* nil and the slot still holds the closed handle.
C9_Witness ==
    /\ backend = "postgres" /\ done = 1
    /\ client.kind = "conn" /\ client \in closed
    /\ retd.op = "Connect" /\ ~retd.ran /\ retd.err = NoErr
    /\ natt = 1

\* The step belongs to a call of an exported function named Client or DB.
AccessorStep ==
    \/ InstantStep("Get")
    \/ /\ Exported(backend, "Connect") \in {"Client", "DB"}
       /\ \/ InstantStep("Connect")
          \/ \E t \in Threads : op[t] = "Connect" /\ pc'[t] # pc[t]

(* C10, as stated: Client() / DB() is a pure read.  Fails for the Client()
   of src/db/postgres/client.go, which is that package's connect operation. *)
C10_AccessorsPure == [][ AccessorStep => PureRead ]_vars

(* C10, amended: mongo's Client() and postgres' DB() are pure reads: they
   return the value in the client slot, run no connect body and no dial, and
   change neither the slot nor the barrier.  (Client() of
   src/db/postgres/client.go is not such an accessor: it runs once.Do.) *)
C10_PureRead ==
    [][ InstantStep("Get") =>
            /\ PureRead
            /\ retd'.val = client
            /\ retd'.err = NoErr ]_vars

\* The accessor has returned the connected handle.
C10_Witness ==
    /\ retd.op = "Get" /\ retd.val = client /\ client.kind = "conn"
    /\ done = 1

\* The step is a call of Ping, from its start to its return or its panic.
PingStep ==
    /\ ncalls' = ncalls + 1
    /\ retd'.op = "Ping"
    /\ \A t \in Threads : pc'[t] # pc[t] => pc'[t] = "crashed"

(* C11: a Ping called while no client is stored (the slot holds the nil
   pointer: before any Connect, or after mongo's failed first dial) returns a
   non-nil error to its caller, does not crash the calling goroutine, and
   changes neither the client slot nor the barrier.  Fails: both Ping
   functions call a method that dereferences the nil package variable. *)
C11_PingNoClientErrors ==
    [][ (PingStep /\ client = Nil) =>
            /\ retd'.err \notin {NoErr, "panic"}
            /\ pc' = pc
            /\ client' = client /\ done' = done /\ mu' = mu ]_vars

\* The step assigns the client slot a value it did not hold.
SlotWritten == client' # client

\* The step is the assignment of the connect body, made by the holder of the
\* barrier's mutex.
BodyWrite == \E t \in Threads : pc[t] = "dial" /\ pc'[t] = "finish" /\ mu = t

(* C12: the client slot is written only inside the barrier-guarded connect
   body or by SetClient/SetDB; no other code path of Connect, Reset,
   Client/DB, Ping or Close assigns it, so a Reset whose connect body has
   completed never overwrites a handle installed by SetClient/SetDB.  Fails:
   Reset of src/db/postgres/client.go assigns `db, err = c.Client()` after
   once.Do has returned. *)
C12_SlotWriters ==
    [][ SlotWritten => (BodyWrite \/ InstantStep("Set")) ]_vars

(* C16: with a driver that fails its first two dial invocations and succeeds
   afterwards, Connect, Connect, Reset on a fresh manager give: the first
   Connect returns an error; the second Connect, without a reset, returns the
   same error; the Reset returns nil after one attempt of its own, the first
   of a fresh generation, which has stored a usable handle.  Fails: the
   second Connect returns nil (and so does mongo's first), and the dial of
   the Reset is the driver's second invocation, which fails. *)
C16_FailTwiceThenReset ==
    /\ (ncalls = 1 /\ retd.op = "Connect") =>
           (retd.ran /\ retd.err # NoErr /\ retd.err = retd.gerr)
    /\ (ncalls = 2 /\ retd.op = "Connect") =>
           (~retd.ran /\ retd.err # NoErr /\ retd.err = retd.gerr)
    /\ retd.op = "Reset" =>
           /\ retd.ran /\ retd.err = NoErr
           /\ nbody = 1 /\ gdials = 1 /\ last.out = "ok"
           /\ client = Handle("conn", natt) /\ Usable(client)

\* A connect body is executing: some goroutine is inside the closure.
BodyRunning == \E t \in Threads : pc[t] \in {"dial", "finish"}

\* The step is the return of a Connect call whose once.Do did not run the
\* body: on the fast path, or on the slow path after it got the mutex.
SkippedConnectReturn ==
    \/ InstantStep("Connect")
    \/ \E t \in Threads : op[t] = "Connect" /\ pc[t] = "lock" /\ pc'[t] = "idle"

\* The step is the return of a Connect call (mongo, postgres).
ConnectReturn ==
    /\ backend # "legacy"
    /\ \/ SkippedConnectReturn
       \/ \E t \in Threads :
              op[t] = "Connect" /\ pc[t] = "finish" /\ pc'[t] = "idle"

\* The attempt of the current generation has succeeded.
AttemptSucceeded == nbody >= 1 /\ last.out = "ok"

(* C17, as stated: a Connect that does not execute the connect body never
   returns while the body of the current generation is executing; hence,
   when a Connect returns after a successful attempt, the client slot holds
   the handle that attempt connected.  Fails after Connect, SetDB, Connect:
   the slot holds the injected handle. *)
C17_SlotHoldsConnected ==
    [][ /\ SkippedConnectReturn => (~BodyRunning /\ ~BodyRunning')
        /\ (ConnectReturn /\ AttemptSucceeded') =>
               client' = Handle("conn", natt') ]_vars

(* C17, amended: a Connect that does not execute the connect body returns
   only when no connect body is executing; hence, when a Connect returns
   after a successful attempt, the body's assignment of the client slot has
   been made: the slot holds the handle that attempt connected, or the
   handle a SetClient/SetDB has stored over it since. *)
C17_WaitForWinner ==
    [][ /\ SkippedConnectReturn => (~BodyRunning /\ ~BodyRunning')
        /\ (ConnectReturn /\ AttemptSucceeded') =>
               (client' = Handle("conn", natt') \/ client' \in Injected) ]_vars

\* The second of two goroutines has returned from a Connect that found the
\* attempt of the first made, and the slot holds the connected handle.
C17_Witness ==
    /\ nthr = 2 /\ ncalls = 2 /\ fresh /\ Quiet
    /\ retd.op = "Connect" /\ ~retd.ran /\ retd.served
    /\ AttemptSucceeded /\ client = Handle("conn", natt)

\* A Reset (mongo, postgres) is in progress and its own connect body has
\* made its assignment of the client slot.
ResetHasDialed ==
    /\ backend # "legacy"
    /\ \E t \in Threads : op[t] = "Reset" /\ pc[t] = "finish" /\ mu = t

(* C18: a Client()/DB() read that runs while a Reset is in progress returns
   the handle that was stored when the Reset began or the handle the Reset's
   connect attempt connected, and no third value such as nil (a handle that
   SetClient/SetDB injected is left out of the statement).  Read once the
   body of the Reset has assigned the slot: the value is the handle of this
   attempt, or the assignment did not change the slot.  Fails: a dial that
   fails stores what the driver returned with the error, nil in mongo. *)
C18_OldOrNew ==
    [][ (InstantStep("Get") /\ ResetHasDialed) =>
            \/ retd'.val \in Injected
            \/ retd'.val = Handle("conn", natt)
            \/ ~last.changed ]_vars

\* The goroutines inside the connect body.
InBody == {t \in Threads : pc[t] \in {"dial", "finish"}}

(* C20: connect bodies never overlap, also across generations: at every
   moment at most one goroutine is inside the connect body, it holds the
   barrier's mutex and the barrier is Unfired until it has finished; a
   once.Reset() takes effect only while no body is executing, and the body's
   assignment of the slot is made by the goroutine that is alone in the
   body. *)
C20_BodiesNeverOverlap ==
    /\ Cardinality(InBody) <= 1
    /\ \A t \in InBody : mu = t /\ done = 0 /\ nbody >= 1
    /\ \A t \in Threads : (pc[t] = "reset" /\ ENABLED OnceReset(t)) => InBody = {}

\* A Reset waits at once.Reset() while the connect body of another Reset,
\* the second body of the behaviour, is executing.
C20_Witness ==
    \E t, u \in Threads :
        /\ pc[t] = "reset" /\ ~ENABLED OnceReset(t)
        /\ op[u] = "Reset" /\ pc[u] = "finish" /\ mu = u
        /\ natt = 2 /\ ~fresh

\* Goroutine t is inside a Connect or a Reset.
InCall(t) == pc[t] \in {"reset", "lock", "dial", "finish", "resetstore"}

(* C21: no deadlock: with goroutines calling Connect and Reset concurrently,
   a fair scheduler and a driver whose dial and probe return, every Connect
   call and every Reset call eventually returns. *)
C21_EveryCallReturns ==
    \A t \in Threads : InCall(t) ~> pc[t] = "idle"

\* Two goroutines have called concurrently and both calls have returned:
\* the Reset of one found the body run by the other after its once.Reset().
C21_Witness ==
    /\ Quiet /\ nthr = 2 /\ ncalls = 2
    /\ retd.op = "Reset" /\ ~retd.ran /\ retd.served
    /\ mu = 0 /\ done = 1

\* The step is a dial of the driver.
DialStep == gdials' # gdials /\ ~ResetStep

(* C22: the barrier and the client slot are shared by all Config values of
   a package (mongo, postgres).  When Connect is called on different Config
   values in one generation, only the configuration of the call that got the
   barrier is dialed, and once; a Connect on any other Config returns nil
   without a connect body or a dial of its own and leaves the slot alone;
   and Client()/DB() on either Config returns the handle that one attempt
   built (or the handle a SetClient/SetDB stored over it). *)
C22_SharedByAllConfigs ==
    [][ /\ DialStep =>
               /\ gdials = 0 /\ gdials' = 1
               /\ \E t \in Threads :
                      pc[t] = "dial" /\ mu = t /\ cfg[t] = last.cfg
        /\ (backend # "legacy" /\ SkippedConnectReturn) =>
               /\ retd'.err = NoErr
               /\ natt' = natt /\ gdials' = gdials /\ last' = last
               /\ client' = client /\ done' = done
        /\ (backend # "legacy" /\ InstantStep("Get") /\ AttemptSucceeded) =>
               (retd'.val = Handle("conn", natt) \/ retd'.val \in Injected) ]_vars

\* A Connect on a second Config has returned nil in the generation in which
\* the first Config was dialed, and the slot holds the handle of that dial.
C22_Witness ==
    /\ backend # "legacy" /\ fresh
    /\ retd.op = "Connect" /\ ~retd.ran /\ retd.served
    /\ retd.cfg # last.cfg /\ retd.err = NoErr
    /\ AttemptSucceeded /\ gdials = 1 /\ client = Handle("conn", natt)

\* The step ends the connect body of the call that follows a SetClient/SetDB
\* (with one goroutine, the call that returned last is the one made before).
BodyEnd ==
    /\ retd.op = "Set"
    /\ \E t \in Threads : pc[t] = "finish" /\ pc'[t] # "finish"

\* The step is the slow path of a Connect that finds the barrier Unfired.
UnfiredConnect(t) ==
    op[t] = "Connect" /\ pc[t] = "lock" /\ pc'[t] # "lock" /\ done = 0

\* What the claim says about SetClient/SetDB and about a Connect that does
\* not run the body, common to both statements of C23.
InjectedAndBarrier ==
    /\ InstantStep("Set") => (done' = done /\ client' \in Injected)
    /\ SkippedConnectReturn => (done = 1 /\ client' = client)
    /\ \A t \in Threads : UnfiredConnect(t) => (ran'[t] /\ natt' = natt + 1)

(* C23, as stated (one goroutine): SetClient/SetDB does not fire the
   barrier; the next Connect on an Unfired barrier executes the connect
   body, dials and replaces the injected handle; a Connect leaves an
   injected handle in the slot only when it found the barrier Fired.  Fails:
   mongo's body returns at opts.Validate() before the dial. *)
C23_InjectedReplaced ==
    [][ /\ InjectedAndBarrier
        /\ BodyEnd => (gdials' = 1 /\ client' \notin Injected) ]_vars

(* C23, amended (one goroutine): SetClient/SetDB does not fire the barrier;
   the next Connect on an Unfired barrier executes the connect body, and the
   body dials and replaces the injected handle by what the driver returned,
   unless mongo's option validation rejected the configuration: then no
   dial is made and the injected handle stays, with the barrier Fired.  A
   Connect that finds the barrier Fired leaves the slot alone. *)
C23_InjectedUnfired ==
    [][ /\ InjectedAndBarrier
        /\ BodyEnd =>
               \/ gdials' = 1 /\ client' \notin Injected
               \/ /\ backend = "mongo" /\ ~Valid(last'.cfg)
                  /\ last'.err = "ConfigInvalid"
                  /\ gdials' = 0 /\ client' = client /\ done' = 1 ]_vars

\* The connect body of a Connect is about to dial while the slot holds a
\* handle that was injected with the barrier Unfired.
C23_Witness ==
    \E t \in Threads :
        /\ op[t] = "Connect" /\ pc[t] = "dial" /\ mu = t
        /\ client \in Injected /\ retd.op = "Set" /\ done = 0

(* ================= properties of the migration helpers ================= *)
\* The step is a call of the migration helper o.
MigrationStep(o) == ncalls' = ncalls + 1 /\ mret'.op = o

\* The two paths the CreateMigrationFiles call that returned in this step
\* formatted, written out from the package and the type it was given.
ExpectedExt(p, t) == IF p = "postgres" \/ t = PostgresDB THEN "sql" ELSE "json"
UpPath(m, ts)   == Path(ts, m.name, "up", ExpectedExt(pkg, m.typ))
DownPath(m, ts) == Path(ts, m.name, "down", ExpectedExt(pkg, m.typ))

(* C13: when CreateMigrationFiles has created the "up" file and creating the
   "down" file then fails, the call returns the error and the "up" file does
   not exist afterwards; no half of the pair is left in ./migrations.
   Fails: the error of os.Remove is discarded, and createFile also fails
   when f.Close() fails, after the "down" file has come into existence. *)
C13_NoHalfPair ==
    [][ (MigrationStep("Create") /\ mret'.up = "ok"
            /\ mret'.down \in {"nocreate", "noclose"}) =>
            /\ mret'.err # "nil"
            /\ UpPath(mret', now') \notin files'
            /\ DownPath(mret', now') \notin files' ]_vars

(* C14: RunMigration returns nil when the runner's Up succeeds and when it
   reports the "no change" sentinel, and returns the runner's error
   unchanged for every other error. *)
C14_RunMigration ==
    [][ MigrationStep("Run") =>
            IF mret'.drv \in {"nil", ErrNoChange}
            THEN mret'.err = "nil"
            ELSE mret'.err = mret'.drv ]_vars

\* RunMigration has returned nil on a database with every unit applied.
C14_Witness ==
    /\ mret.op = "Run" /\ mret.drv = ErrNoChange /\ mret.err = "nil"
    /\ version = NumUnits /\ ~dirty

(* C15: RollbackMigration rolls back exactly one unit; it returns nil when
   there is nothing to roll back, and an error only when the rollback
   itself failed.  Fails: with no unit applied m.Steps(-1) reports an error,
   which RollbackMigration returns. *)
C15_RollbackOne ==
    [][ MigrationStep("Rollback") =>
            /\ (version = 0 /\ ~dirty) => (mret'.err = "nil" /\ version' = 0)
            /\ (version > 0 /\ mret'.err = "nil") => version' = version - 1
            /\ mret'.err # "nil" => (version > 0 \/ dirty) ]_vars

(* C19: CreateMigrationFiles rejects bad input before it touches the file
   system: with an empty filename, or (package db) a type other than
   postgres and mongodb, it returns an error and ./migrations is unchanged;
   with good input, when it returns nil it has added exactly the pair of its
   timestamp and filename, with extension sql for postgres and json for
   mongodb. *)
C19_RejectsBadInput ==
    [][ MigrationStep("Create") =>
            LET m   == mret'
                bad == \/ m.name = ""
                       \/ pkg = "db" /\ m.typ \notin {PostgresDB, MongoDB}
            IN  /\ bad => (m.err # "nil" /\ files' = files /\ m.up = "none")
                /\ (~bad /\ m.err = "nil") =>
                       files' = files \cup {UpPath(m, now'), DownPath(m, now')} ]_vars

\* A pair of JSON files has been created for mongodb.
C19_Witness ==
    /\ pkg = "db" /\ mret.op = "Create" /\ mret.typ = MongoDB
    /\ mret.err = "nil"
    /\ Path(now, "init", "up", "json") \in files
    /\ Path(now, "init", "down", "json") \in files

=============================================================================
